---- MODULE Spec2Model ----
(***************************************************************************)
(* XGMII driver (cocotb_bus/drivers/xgmii.py) and XGMII monitor            *)
(* (cocotb_bus/monitors/xgmii.py) on one clocked bus signal.               *)
(*                                                                         *)
(* Python integers are unbounded; an integer is modelled as the set of the *)
(* positions of its 1-bits, so that |, <<, >> and & are set operations and *)
(* a 72-bit bus value never leaves the range of the model's integers.       *)
(* Python sequences are 0-based, TLA+ sequences 1-based: lane i of a word  *)
(* is element i+1 of a lane sequence.                                      *)
(*                                                                         *)
(* Specifications:                                                         *)
(*   Spec       one send of the driver, sampled by the monitor             *)
(*   SeqSpec    several sends in a row, sampled by the monitor             *)
(*   RxSpec     the monitor on a signal driven by another device           *)
(*   CodecSpec  _XGMIIBus and _get_bytes used word by word                 *)
(*   FramerSpec layer1 frames put through the monitor's frame checks       *)
(***************************************************************************)
EXTENDS Integers, Sequences, FiniteSets, TLC

\* ---------------------------------------------------------------- constants

XGMII_IDLE == 7
XGMII_START == 251
XGMII_TERMINATE == 253

PREAMBLE_SFD == <<85, 85, 85, 85, 85, 85, 213>>

\* layer1 pads the packet to this many bytes (drivers/xgmii.py:129)
MinPayload == 60
\* the monitor's runt threshold 64 + 7 (monitors/xgmii.py:134)
RuntLimit == 71
\* the monitor's "No data to extract" threshold (monitors/xgmii.py:136)
TruncLimit == 12

\* bus widths: len(signal) // 9, "either 4 or 8 bytes"
Widths == {4, 8}

\* ---------------------------------------------------------------- integers as bit sets

Pow2(n) == 2 ^ n

\* the 1-bits of a byte value 0..255
ByteBits(b) == {i \in 0..7 : (b \div Pow2(i)) % 2 = 1}

\* x << k
Shl(x, k) == {i + k : i \in x}

\* (x >> k) & 0xff, as a number 0..255
RECURSIVE ByteAtFrom(_, _, _)
ByteAtFrom(x, k, j) ==
    IF j > 7 THEN 0
    ELSE (IF (k + j) \in x THEN Pow2(j) ELSE 0) + ByteAtFrom(x, k, j + 1)

ByteAt(x, k) == ByteAtFrom(x, k, 0)

\* ---------------------------------------------------------------- zlib.crc32

\* A CRC value is kept as its four bytes, least significant first, which is
\* also what struct.pack("<I", crc) produces.

\* the number whose 1-bits are the set x of positions 0..7
BitsByte(x) == ByteAt(x, 0)

\* a ^ b on 4-bit values, tabulated
XorNibble ==
    [a \in 0..15 |-> [b \in 0..15 |->
        BitsByte((ByteBits(a) \ ByteBits(b)) \cup (ByteBits(b) \ ByteBits(a)))]]

\* a ^ b on bytes
XorByte(a, b) ==
    16 * XorNibble[a \div 16][b \div 16] + XorNibble[a % 16][b % 16]

\* x ^ y on 32-bit values
Xor32(x, y) ==
    <<XorByte(x[1], y[1]), XorByte(x[2], y[2]), XorByte(x[3], y[3]), XorByte(x[4], y[4])>>

\* x >> 1 on a 32-bit value
Shr1(x) ==
    <<x[1] \div 2 + 128 * (x[2] % 2), x[2] \div 2 + 128 * (x[3] % 2),
      x[3] \div 2 + 128 * (x[4] % 2), x[4] \div 2>>

\* reflected CRC-32/IEEE polynomial 0xEDB88320
CrcPoly == <<32, 131, 184, 237>>

RECURSIVE CrcShift(_, _)
CrcShift(crc, n) ==
    IF n = 0 THEN crc
    ELSE CrcShift(IF crc[1] % 2 = 1 THEN Xor32(Shr1(crc), CrcPoly) ELSE Shr1(crc),
                  n - 1)

\* zlib's table: entry n is n passed through eight shift steps
CrcTable == [n \in 0..255 |-> CrcShift(<<n, 0, 0, 0>>, 8)]

\* a byte step that leaves out the top bit of the data byte
CrcByteLow7(crc, byte) ==
    Xor32(CrcTable[XorByte(crc[1], byte % 128)], <<crc[2], crc[3], crc[4], 0>>)

\* one byte: crc = table[(crc ^ byte) & 0xff] ^ (crc >> 8)
CrcByte(crc, byte) ==
    Xor32(CrcTable[XorByte(crc[1], byte)], <<crc[2], crc[3], crc[4], 0>>)

RECURSIVE CrcUpdate(_, _, _)
CrcUpdate(crc, data, i) ==
    IF Len(crc) = 4 /\ i <= Len(data)
    THEN CrcUpdate(CrcByte(crc, data[i]), data, i + 1)
    ELSE crc

\* struct.pack("<I", zlib.crc32(data) & 0xFFFFFFFF)
Crc32(data) == Xor32(CrcUpdate(<<255, 255, 255, 255>>, data, 1), <<255, 255, 255, 255>>)

\* ---------------------------------------------------------------- driver: layer1

Zeros(n) == [i \in 1..n |-> 0]

\* padding to 64 bytes, as layer1's docstring words it
Pad64(packet) ==
    IF Len(packet) < 64 THEN packet \o Zeros(64 - Len(packet)) ELSE packet

\* layer1 lines 129-131
Pad(packet) ==
    IF Len(packet) < MinPayload
    THEN packet \o Zeros(MinPayload - Len(packet))
    ELSE packet

\* layer1 lines 132-133
Layer1(packet) ==
    LET padded == Pad(packet)
    IN  PREAMBLE_SFD \o padded \o Crc32(padded)

\* ---------------------------------------------------------------- model bounds

\* raw packets handed to send() have 1..MaxRawLen bytes
MaxRawLen == 68
\* first bytes of the raw packets; byte i of a packet is (fill + i) mod 256, so
\* packets starting at 248 run through the values of START, TERMINATE and IDLE
Fills == {170, 248}

MkRaw(len, fill) == [i \in 1..len |-> (fill + i - 1) % 256]

RawFrames == {MkRaw(len, fill) : len \in 1..MaxRawLen, fill \in Fills}

\* ---------------------------------------------------------------- state

VARIABLES
    nbytes,       \* _XGMIIBus._nbytes = monitor's self.bytes = len(signal) // 9
    interleaved,  \* layout of driver and monitor
    bus_integer,  \* _XGMIIBus._integer
    signal,       \* value of the bus signal
    turn,         \* who acts next around a clock edge: "mon" samples, "drv" drives
    dpc,          \* position of the driver's _driver_send coroutine
    pkt,          \* _driver_send's local pkt
    done,         \* _driver_send's local done
    raw,          \* argument of the send in flight (or of the last one)
    wire,         \* layer1(raw) of that send
    sync,         \* sync argument of that send
    words,        \* signal values driven by that send, in order
    edges,        \* clock edges that send has awaited
    nsent,        \* completed sends
    wrote,        \* the self.bus[index] = (byte, ctrl) statements executed for the
                  \* word read last through self.bus.value (or being built), in order
    sent,         \* the packets handed to send() so far, in order
    budget,       \* send() calls the caller makes in this run
    mpc,          \* position of the monitor's _monitor_recv coroutine
    mon_pkt,      \* monitor's self._pkt
    received,     \* payloads handed to self._recv, in order
    log,          \* errors logged by the monitor, in order
    last,         \* how the monitor's last step ended, and self._pkt at that point
    sphase,       \* stimulus (a device driving the monitored bus): "off" when the
                  \* driver owns the signal, else "idle", "frame", "over"
    sstream,      \* bytes the stimulus sends as its frame
    scur,         \* number of bytes of sstream already placed on the bus
    sstart,       \* lane of the stimulus' START symbol
    sevt,         \* kind of the last word the stimulus drove
    hpc,          \* position of a caller that uses _XGMIIBus or layer1 directly
                  \* ("off" when the driver coroutine is the only caller)
    plan,         \* the lanes such a caller is going to write
    lastset,      \* the caller's last __setitem__: its index, and whether it
                  \* raised IndexError
    decoded       \* what _get_bytes returned for the value the caller drove

drvVars == <<bus_integer, dpc, pkt, done, raw, wire, sync, words, edges, nsent,
             wrote, sent>>
monVars == <<mpc, mon_pkt, received, log, last>>
cfgVars == <<nbytes, interleaved, budget>>
stimVars == <<sphase, sstream, scur, sstart, sevt>>
auxVars == <<hpc, plan, lastset, decoded>>
vars == <<nbytes, interleaved, bus_integer, signal, turn, dpc, pkt, done, raw,
          wire, sync, words, edges, nsent, wrote, sent, budget, mpc, mon_pkt,
          received, log, last, sphase, sstream, scur, sstart, sevt,
          hpc, plan, lastset, decoded>>

\* ---------------------------------------------------------------- driver: _XGMIIBus

\* __setitem__ lines 67-69: the call raises IndexError
IndexError(index) == index >= nbytes

\* __setitem__ without the index test
BusSetItemNoCheck(integer, index, byte, ctrl) ==
    IF interleaved
    THEN integer \cup Shl(ByteBits(byte), index * 9)
                 \cup (IF ctrl THEN {9 * index + 8} ELSE {})
    ELSE integer \cup Shl(ByteBits(byte), index * 8)
                 \cup (IF ctrl THEN {nbytes * 8 + index} ELSE {})

\* __setitem__ that numbers the control bits of the block layout from the top
BusSetItemCtrlReversed(integer, index, byte, ctrl) ==
    IF index >= nbytes THEN integer
    ELSE IF interleaved
    THEN integer \cup Shl(ByteBits(byte), index * 9)
                 \cup (IF ctrl THEN {9 * index + 8} ELSE {})
    ELSE integer \cup Shl(ByteBits(byte), index * 8)
                 \cup (IF ctrl THEN {nbytes * 9 - 1 - index} ELSE {})

\* _XGMIIBus.__setitem__(index, (byte, ctrl)); an index >= nbytes raises
\* IndexError before _integer is touched
BusSetItem(integer, index, byte, ctrl) ==
    IF index >= nbytes THEN integer
    ELSE IF interleaved
    THEN integer \cup Shl(ByteBits(byte), index * 9)
                 \cup (IF ctrl THEN {9 * index + 8} ELSE {})
    ELSE integer \cup Shl(ByteBits(byte), index * 8)
                 \cup (IF ctrl THEN {nbytes * 8 + index} ELSE {})

\* create_binary(integer, n_bits, big_endian=False): the n_bits-wide vector
CreateBinary(integer, n_bits) == {i \in integer : i < n_bits}

\* _XGMIIBus.value (the read; the caller also clears _integer)
BusValue(integer) == CreateBinary(integer, nbytes * 9)

\* a run of self.bus[index] = (byte, ctrl) statements, in order
RECURSIVE BusWrite(_, _, _)
BusWrite(integer, writes, k) ==
    IF k > Len(writes) THEN integer
    ELSE BusWrite(BusSetItem(integer, writes[k][1], writes[k][2], writes[k][3]),
                  writes, k + 1)

\* pkt[n:]
Drop(p, n) == IF n >= Len(p) THEN <<>> ELSE SubSeq(p, n + 1, Len(p))

\* idle lanes without the control flag
IdleWritesNoCtrl == [i \in 1..nbytes |-> <<i - 1, XGMII_IDLE, FALSE>>]

\* XGMII.idle: every lane (IDLE, True)
IdleWrites == [i \in 1..nbytes |-> <<i - 1, XGMII_IDLE, TRUE>>]

\* terminate that leaves the lanes after the terminator unwritten
TerminateNoIdle(index) == <<<<index, XGMII_TERMINATE, TRUE>>>>

\* XGMII.terminate(index)
TerminateWrites(index) ==
    <<<<index, XGMII_TERMINATE, TRUE>>>> \o
    (IF index < nbytes - 1
     THEN [r \in 1..(nbytes - 1 - index) |-> <<index + r, XGMII_IDLE, TRUE>>]
     ELSE <<>>)

\* a start word that takes pkt[i] instead of pkt[i-1] for lane i
StartWritesShifted(p) ==
    <<<<0, XGMII_START, TRUE>>>> \o [i \in 1..(nbytes - 1) |-> <<i, p[i + 1], FALSE>>]

\* _driver_send lines 169-172: START in lane 0, pkt[i-1] in lane i
StartWrites(p) ==
    <<<<0, XGMII_START, TRUE>>>> \o [i \in 1..(nbytes - 1) |-> <<i, p[i], FALSE>>]

\* a data word whose lane 0 is written twice, first with FF
DataWritesTwice(p) ==
    <<<<0, 255, FALSE>>>> \o
    (IF Len(p) < nbytes
     THEN [i \in 1..Len(p) |-> <<i - 1, p[i], FALSE>>] \o TerminateWrites(Len(p))
     ELSE [i \in 1..nbytes |-> <<i - 1, p[i], FALSE>>])

\* _driver_send lines 182-188: the for loop over the lanes of one data word
DataWrites(p) ==
    IF Len(p) < nbytes
    THEN [i \in 1..Len(p) |-> <<i - 1, p[i], FALSE>>] \o TerminateWrites(Len(p))
    ELSE [i \in 1..nbytes |-> <<i - 1, p[i], FALSE>>]

\* self.signal.value = self.bus.value after the given lane writes
Emit(writes) == BusValue(BusWrite(bus_integer, writes, 1))

\* ---------------------------------------------------------------- driver: _driver_send

\* a start word that leaves the bytes it carries in pkt
DriveStartKeepsPkt(p) ==
    /\ signal' = Emit(StartWrites(p))
    /\ bus_integer' = {}
    /\ wrote' = StartWrites(p)
    /\ words' = <<signal'>>
    /\ pkt' = p
    /\ dpc' = "start"

\* lines 169-176: drive the start word, then await clkedge
DriveStart(p) ==
    /\ signal' = Emit(StartWrites(p))
    /\ bus_integer' = {}
    /\ wrote' = StartWrites(p)
    /\ words' = <<signal'>>
    /\ pkt' = Drop(p, nbytes - 1)
    /\ dpc' = "start"

\* the loop without the "if not done" terminate word
LoopHeadNoExtra(p, d) ==
    IF p # <<>>
    THEN /\ signal' = Emit(DataWrites(p))
         /\ bus_integer' = {}
         /\ wrote' = DataWrites(p)
         /\ words' = Append(words, signal')
         /\ pkt' = IF Len(p) < nbytes THEN <<>> ELSE p
         /\ done' = (d \/ Len(p) < nbytes)
         /\ dpc' = "data"
    ELSE /\ signal' = Emit(IdleWrites)
         /\ bus_integer' = {}
         /\ wrote' = IdleWrites
         /\ words' = Append(words, signal')
         /\ pkt' = p
         /\ done' = d
         /\ dpc' = "settle"

\* lines 180-200 from the while test to the next await, with local values p, d
LoopHead(p, d) ==
    IF p # <<>>
    THEN /\ signal' = Emit(DataWrites(p))
         /\ bus_integer' = {}
         /\ wrote' = DataWrites(p)
         /\ words' = Append(words, signal')
         /\ pkt' = IF Len(p) < nbytes THEN <<>> ELSE p
         /\ done' = (d \/ Len(p) < nbytes)
         /\ dpc' = "data"
    ELSE IF ~d
    THEN /\ signal' = Emit(TerminateWrites(0))
         /\ bus_integer' = {}
         /\ wrote' = TerminateWrites(0)
         /\ words' = Append(words, signal')
         /\ pkt' = p
         /\ done' = d
         /\ dpc' = "term"
    ELSE /\ signal' = Emit(IdleWrites)
         /\ bus_integer' = {}
         /\ wrote' = IdleWrites
         /\ words' = Append(words, signal')
         /\ pkt' = p
         /\ done' = d
         /\ dpc' = "settle"

\* _driver_send(pkt, sync) up to its first await: lines 160-167 (sync) or
\* 160-176 (no sync)
Begin(r, sy) ==
    /\ raw' = r
    /\ sent' = Append(sent, r)
    /\ wire' = Layer1(r)
    /\ sync' = sy
    /\ edges' = 0
    /\ done' = FALSE
    /\ IF sy
       THEN /\ dpc' = "sync"
            /\ pkt' = wire'
            /\ words' = <<>>
            /\ UNCHANGED <<signal, bus_integer, wrote>>
       ELSE DriveStart(wire')
    /\ turn' = "mon"
    /\ UNCHANGED <<cfgVars, auxVars, monVars, stimVars>>

\* send(pkt, sync) while no send is in flight
Send(r, sy) ==
    /\ turn = "drv"
    /\ dpc = "idle"
    /\ nsent < budget
    /\ Begin(r, sy)
    /\ UNCHANGED nsent

\* resume from line 200: the send returns and the next queued packet is
\* taken up at the same clock edge
SendAgain(r, sy) ==
    /\ turn = "drv"
    /\ dpc = "settle"
    /\ nsent + 1 < budget
    /\ nsent' = nsent + 1
    /\ Begin(r, sy)

\* the clock ticks while no send is in flight
DriverRest ==
    /\ turn = "drv"
    /\ dpc = "idle"
    /\ turn' = "mon"
    /\ UNCHANGED <<signal, drvVars, cfgVars, auxVars, monVars, stimVars>>

\* a sync wait that takes two clock edges
DriverSyncedTwoEdges ==
    /\ turn = "drv"
    /\ dpc = "sync"
    /\ edges' = edges + 2
    /\ DriveStart(pkt)
    /\ turn' = "mon"
    /\ UNCHANGED <<done, raw, wire, sync, nsent, sent, cfgVars, auxVars, monVars, stimVars>>

\* resume from line 167
DriverSynced ==
    /\ turn = "drv"
    /\ dpc = "sync"
    /\ edges' = edges + 1
    /\ DriveStart(pkt)
    /\ turn' = "mon"
    /\ UNCHANGED <<done, raw, wire, sync, nsent, sent, cfgVars, auxVars, monVars, stimVars>>

\* resume from line 176: done = False, then the while loop
DriverAfterStart ==
    /\ turn = "drv"
    /\ dpc = "start"
    /\ edges' = edges + 1
    /\ LoopHead(pkt, FALSE)
    /\ turn' = "mon"
    /\ UNCHANGED <<raw, wire, sync, nsent, sent, cfgVars, auxVars, monVars, stimVars>>

\* resume from line 191: pkt = pkt[len(self.bus):], then the while test
DriverAfterData ==
    /\ turn = "drv"
    /\ dpc = "data"
    /\ edges' = edges + 1
    /\ LoopHead(Drop(pkt, nbytes), done)
    /\ turn' = "mon"
    /\ UNCHANGED <<raw, wire, sync, nsent, sent, cfgVars, auxVars, monVars, stimVars>>

\* resume from line 197: self.idle()
DriverAfterTerminate ==
    /\ turn = "drv"
    /\ dpc = "term"
    /\ edges' = edges + 1
    /\ signal' = Emit(IdleWrites)
    /\ bus_integer' = {}
    /\ wrote' = IdleWrites
    /\ words' = Append(words, signal')
    /\ dpc' = "settle"
    /\ turn' = "mon"
    /\ UNCHANGED <<pkt, done, raw, wire, sync, nsent, sent, cfgVars, auxVars, monVars,
                   stimVars>>

\* resume from line 200: the send returns
DriverAfterIdle ==
    /\ turn = "drv"
    /\ dpc = "settle"
    /\ edges' = edges + 1
    /\ dpc' = "idle"
    /\ nsent' = nsent + 1
    /\ turn' = "mon"
    /\ UNCHANGED <<signal, bus_integer, pkt, done, raw, wire, sync, words, wrote, sent,
                   cfgVars, auxVars, monVars, stimVars>>

\* ---------------------------------------------------------------- monitor

\* _get_bytes that keeps the 8-bit byte stride on an interleaved bus
GetBytesStride8(value) ==
    LET ctrl_base == IF interleaved THEN 8 ELSE 8 * nbytes
        ctrl_inc  == IF interleaved THEN 9 ELSE 1
    IN  [ctrls |-> [i \in 1..nbytes |-> (ctrl_base + (i - 1) * ctrl_inc) \in value],
         bytes |-> [i \in 1..nbytes |-> ByteAt(value, (i - 1) * 8)]]

\* XGMII._get_bytes: the ctrls list and the bytes list of the sampled value
GetBytes(value) ==
    LET byte_shift == IF interleaved THEN 9 ELSE 8
        ctrl_base  == IF interleaved THEN 8 ELSE 8 * nbytes
        ctrl_inc   == IF interleaved THEN 9 ELSE 1
    IN  [ctrls |-> [i \in 1..nbytes |-> (ctrl_base + (i - 1) * ctrl_inc) \in value],
         bytes |-> [i \in 1..nbytes |-> ByteAt(value, (i - 1) * byte_shift)]]

\* _add_payload that keeps self._pkt when it meets a foreign control symbol
RECURSIVE AddPayloadKeep(_, _, _, _)
AddPayloadKeep(buf, ctrl, bytes, k) ==
    IF k > Len(bytes) THEN [more |-> TRUE, pkt |-> buf, err |-> FALSE]
    ELSE IF ctrl[k]
    THEN [more |-> FALSE, pkt |-> buf, err |-> bytes[k] # XGMII_TERMINATE]
    ELSE AddPayloadKeep(Append(buf, bytes[k]), ctrl, bytes, k + 1)

\* XGMII._add_payload on buffer buf from list position k on:
\* more = the return value, pkt = self._pkt afterwards, err = the error was logged
RECURSIVE AddPayloadFrom(_, _, _, _)
AddPayloadFrom(buf, ctrl, bytes, k) ==
    IF k > Len(bytes) THEN [more |-> TRUE, pkt |-> buf, err |-> FALSE]
    ELSE IF ctrl[k]
    THEN IF bytes[k] # XGMII_TERMINATE
         THEN [more |-> FALSE, pkt |-> <<>>, err |-> TRUE]
         ELSE [more |-> FALSE, pkt |-> buf, err |-> FALSE]
    ELSE AddPayloadFrom(Append(buf, bytes[k]), ctrl, bytes, k + 1)

AddPayload(buf, ctrl, bytes) == AddPayloadFrom(buf, ctrl, bytes, 1)

\* line 141: self._pkt[0:7]
PreambleSfd(buf) == SubSeq(buf, 1, 7)

\* line 142: self._pkt[-4:]
CrcField(buf) == SubSeq(buf, Len(buf) - 3, Len(buf))

\* a payload cut that keeps the checksum bytes
PayloadKeepsCrc(buf) == SubSeq(buf, 8, Len(buf))

\* line 143: self._pkt[7:-4]
Payload(buf) == SubSeq(buf, 8, Len(buf) - 4)

\* a preamble test that looks at the SFD byte only
BadPreambleSfdOnly(buf) == buf[7] # PREAMBLE_SFD[7]

\* line 145: preamble_sfd != _PREAMBLE_SFD
BadPreamble(buf) == PreambleSfd(buf) # PREAMBLE_SFD

\* a length test that lets 11-byte buffers through
TooShortBelow11(buf) == Len(buf) < TruncLimit - 1

\* line 136: len(self._pkt) < 12
TooShort(buf) == Len(buf) < TruncLimit

\* frame checks that drop a frame whose checksum does not match
DeframeCrcFatal(buf) ==
    IF buf = <<>>
    THEN [reports |-> <<>>, deliver |-> FALSE, payload |-> <<>>]
    ELSE LET runt == IF Len(buf) < RuntLimit THEN <<"RuntFrame">> ELSE <<>>
         IN  IF TooShort(buf)
             THEN [reports |-> Append(runt, "Truncated"), deliver |-> FALSE,
                   payload |-> <<>>]
             ELSE IF BadPreamble(buf)
             THEN [reports |-> Append(runt, "BadPreamble"),
                   deliver |-> FALSE, payload |-> <<>>]
             ELSE IF CrcField(buf) # Crc32(Payload(buf))
             THEN [reports |-> Append(runt, "ChecksumMismatch"),
                   deliver |-> FALSE, payload |-> <<>>]
             ELSE [reports |-> runt, deliver |-> TRUE, payload |-> Payload(buf)]

\* frame checks that drop a runt frame
DeframeRuntFatal(buf) ==
    IF buf = <<>>
    THEN [reports |-> <<>>, deliver |-> FALSE, payload |-> <<>>]
    ELSE IF Len(buf) < RuntLimit
    THEN [reports |-> IF TooShort(buf) THEN <<"RuntFrame", "Truncated">>
                      ELSE <<"RuntFrame">>,
          deliver |-> FALSE, payload |-> <<>>]
    ELSE IF BadPreamble(buf)
    THEN [reports |-> <<"BadPreamble">>, deliver |-> FALSE, payload |-> <<>>]
    ELSE [reports |->
              IF CrcField(buf) # Crc32(Payload(buf))
              THEN <<"ChecksumMismatch">> ELSE <<>>,
          deliver |-> TRUE, payload |-> Payload(buf)]

\* _monitor_recv lines 130-167 on self._pkt = buf: what is logged, whether
\* self._recv is called and with which payload
Deframe(buf) ==
    IF buf = <<>>
    THEN [reports |-> <<>>, deliver |-> FALSE, payload |-> <<>>]
    ELSE LET runt == IF Len(buf) < RuntLimit THEN <<"RuntFrame">> ELSE <<>>
         IN  IF TooShort(buf)
             THEN [reports |-> Append(runt, "Truncated"), deliver |-> FALSE,
                   payload |-> <<>>]
             ELSE IF BadPreamble(buf)
             THEN [reports |-> Append(runt, "BadPreamble"),
                   deliver |-> FALSE, payload |-> <<>>]
             ELSE [reports |->
                       IF CrcField(buf) # Crc32(Payload(buf))
                       THEN Append(runt, "ChecksumMismatch") ELSE runt,
                   deliver |-> TRUE, payload |-> Payload(buf)]

\* the monitor after _add_payload, leaving self._pkt as it is when a frame
\* ends without being delivered
AfterAddPayloadKeepsBuf(r) ==
    LET viol == IF r.err THEN <<"ProtocolViolation">> ELSE <<>>
        d    == Deframe(r.pkt)
    IN  IF r.more
        THEN /\ mpc' = "ACCUMULATING"
             /\ mon_pkt' = r.pkt
             /\ last' = [why |-> "more", buf |-> r.pkt]
             /\ UNCHANGED <<received, log>>
        ELSE /\ mpc' = "SCANNING"
             /\ mon_pkt' = IF d.deliver THEN <<>> ELSE r.pkt
             /\ last' = [why |-> IF r.err THEN "violation" ELSE "terminate",
                         buf |-> r.pkt]
             /\ log' = log \o viol \o d.reports
             /\ received' = IF d.deliver THEN Append(received, d.payload)
                            ELSE received

\* the monitor after _add_payload returned r: back to the await in the
\* accumulation loop, or on to line 130 and round to the await at line 110
AfterAddPayload(r) ==
    LET viol == IF r.err THEN <<"ProtocolViolation">> ELSE <<>>
        d    == Deframe(r.pkt)
    IN  IF r.more
        THEN /\ mpc' = "ACCUMULATING"
             /\ mon_pkt' = r.pkt
             /\ last' = [why |-> "more", buf |-> r.pkt]
             /\ UNCHANGED <<received, log>>
        ELSE /\ mpc' = "SCANNING"
             /\ mon_pkt' = <<>>
             /\ last' = [why |-> IF r.err THEN "violation" ELSE "terminate",
                         buf |-> r.pkt]
             /\ log' = log \o viol \o d.reports
             /\ received' = IF d.deliver THEN Append(received, d.payload)
                            ELSE received

\* a lane-4 start that cuts ctrl[4:], keeping the START lane itself
StartCutKeepsStart(w) ==
    IF w.ctrls[1] /\ w.bytes[1] = XGMII_START THEN 1
    ELSE IF nbytes = 8 /\ w.ctrls[5] /\ w.bytes[5] = XGMII_START THEN 4
    ELSE 0

\* lines 113-124: the number of leading list entries the monitor cuts off
\* (ctrl[1:] after START in lane 0, ctrl[5:] after START in lane 4 of an
\* 8-byte bus), 0 when the word starts no frame
StartCut(w) ==
    IF w.ctrls[1] /\ w.bytes[1] = XGMII_START THEN 1
    ELSE IF nbytes = 8 /\ w.ctrls[5] /\ w.bytes[5] = XGMII_START THEN 5
    ELSE 0

\* resume from line 110: one sampled word while scanning
MonitorScan ==
    /\ turn = "mon"
    /\ mpc = "SCANNING"
    /\ LET w == GetBytes(signal)
       IN  IF StartCut(w) > 0
           THEN AfterAddPayload(AddPayload(mon_pkt, Drop(w.ctrls, StartCut(w)),
                                           Drop(w.bytes, StartCut(w))))
           ELSE /\ mpc' = "SCANNING"
                /\ mon_pkt' = <<>>
                /\ last' = [why |-> "nostart", buf |-> mon_pkt]
                /\ log' = log \o Deframe(mon_pkt).reports
                /\ received' = IF Deframe(mon_pkt).deliver
                               THEN Append(received, Deframe(mon_pkt).payload)
                               ELSE received
    /\ turn' = "drv"
    /\ UNCHANGED <<signal, drvVars, cfgVars, auxVars, stimVars>>

\* resume from line 118 or 127: one sampled word while accumulating
MonitorAccumulate ==
    /\ turn = "mon"
    /\ mpc = "ACCUMULATING"
    /\ AfterAddPayload(AddPayload(mon_pkt, GetBytes(signal).ctrls, GetBytes(signal).bytes))
    /\ turn' = "drv"
    /\ UNCHANGED <<signal, drvVars, cfgVars, auxVars, stimVars>>

\* ---------------------------------------------------------------- driver and monitor on one signal

\* after XGMII.__init__ of the driver (self.idle()) and at the monitor's first await
InitCommon ==
    /\ nbytes \in Widths
    /\ interleaved \in BOOLEAN
    /\ bus_integer = {}
    /\ signal = Emit(IdleWrites)
    /\ turn = "drv"
    /\ dpc = "idle"
    /\ pkt = <<>>
    /\ done = FALSE
    /\ raw = <<>>
    /\ wire = <<>>
    /\ sync = FALSE
    /\ words = <<>>
    /\ edges = 0
    /\ nsent = 0
    /\ sent = <<>>
    /\ mpc = "SCANNING"
    /\ mon_pkt = <<>>
    /\ received = <<>>
    /\ log = <<>>
    /\ last = [why |-> "init", buf |-> <<>>]

\* no caller besides the driver coroutine touches the bus object
NoCaller ==
    /\ wrote = IdleWrites
    /\ hpc = "off"
    /\ plan = <<>>
    /\ lastset = [index |-> 0, raised |-> FALSE]
    /\ decoded = <<>>

Init ==
    /\ InitCommon
    /\ NoCaller
    /\ budget = 1
    /\ sphase = "off"
    /\ sstream = <<>>
    /\ scur = 0
    /\ sstart = 0
    /\ sevt = "none"

\* ---------------------------------------------------------------- monitor under an arbitrary bus source

\* The monitor watches a signal some device drives.  The stimulus is such a
\* device: idle words, then one frame whose START sits in any of StartLanes,
\* whose bytes are those of sstream, and which it may end at any lane with
\* TERMINATE or break with another control symbol.

\* bytes 1..MaxCorrupt of a stimulus frame, and its last byte, may be corrupted
MaxCorrupt == 8

StartLanes == {0, 1, 4}

\* control symbols a stimulus may put where TERMINATE is expected
BadSymbols == {XGMII_IDLE, XGMII_START}

StimRaws == {MkRaw(1, 170), MkRaw(MinPayload + 1, 248)}

\* s with the lowest bit of byte pos flipped (pos = 0: s itself)
Corrupt(s, pos) == IF pos = 0 THEN s ELSE [s EXCEPT ![pos] = XorByte(@, 1)]

StimStreams ==
    {Corrupt(Layer1(r), pos) :
        r \in StimRaws, pos \in (0..MaxCorrupt) \cup {RuntLimit}}

\* the packed value of a word given as a sequence of <<byte, ctrl>> lanes
StimValue(lanes) ==
    UNION {Shl(ByteBits(lanes[i][1]), IF interleaved THEN 9 * (i - 1) ELSE 8 * (i - 1))
             \cup (IF lanes[i][2]
                   THEN {IF interleaved THEN 9 * (i - 1) + 8 ELSE 8 * nbytes + (i - 1)}
                   ELSE {}) : i \in 1..Len(lanes)}

IdleLanes(n) == [i \in 1..n |-> <<XGMII_IDLE, TRUE>>]

\* nd bytes of the stream from the cursor on, as data lanes
StimDataLanes(nd) == [i \in 1..nd |-> <<sstream[scur + i], FALSE>>]

\* lanes filled up to the bus width: a control symbol, then IDLE
Closed(lanes, sym) ==
    IF Len(lanes) >= nbytes THEN lanes
    ELSE Append(lanes, <<sym, TRUE>>) \o IdleLanes(nbytes - Len(lanes) - 1)

StimIdle ==
    /\ turn = "drv"
    /\ sphase \in {"idle", "over"}
    /\ signal' = StimValue(IdleLanes(nbytes))
    /\ sevt' = "idle"
    /\ turn' = "mon"
    /\ UNCHANGED <<sphase, sstream, scur, sstart, drvVars, cfgVars, auxVars, monVars>>

\* START at lane `lane` after IDLE lanes (or after the TERMINATE of an earlier
\* frame when first = TERMINATE), then stream bytes to the end of the word
StimStart(lane, first) ==
    /\ turn = "drv"
    /\ sphase = "idle"
    /\ lane < nbytes
    /\ signal' = StimValue((IF lane = 0 THEN <<>>
                            ELSE <<<<first, TRUE>>>> \o IdleLanes(lane - 1))
                           \o <<<<XGMII_START, TRUE>>>>
                           \o StimDataLanes(nbytes - 1 - lane))
    /\ sphase' = "frame"
    /\ sstart' = lane
    /\ scur' = nbytes - 1 - lane
    /\ sevt' = "start"
    /\ turn' = "mon"
    /\ UNCHANGED <<sstream, drvVars, cfgVars, auxVars, monVars>>

\* START at lane `lane`, nd stream bytes, then the control symbol sym
StimShort(lane, nd, sym) ==
    /\ turn = "drv"
    /\ sphase = "idle"
    /\ lane + 1 + nd < nbytes
    /\ signal' = StimValue(Closed(IdleLanes(lane) \o <<<<XGMII_START, TRUE>>>>
                                  \o StimDataLanes(nd), sym))
    /\ sphase' = "over"
    /\ sstart' = lane
    /\ scur' = nd
    /\ sevt' = IF sym = XGMII_TERMINATE THEN "term" ELSE "viol"
    /\ turn' = "mon"
    /\ UNCHANGED <<sstream, drvVars, cfgVars, auxVars, monVars>>

\* a full word of stream bytes
StimData ==
    /\ turn = "drv"
    /\ sphase = "frame"
    /\ scur + nbytes <= Len(sstream)
    /\ signal' = StimValue(StimDataLanes(nbytes))
    /\ scur' = scur + nbytes
    /\ sevt' = "data"
    /\ turn' = "mon"
    /\ UNCHANGED <<sphase, sstream, sstart, drvVars, cfgVars, auxVars, monVars>>

\* k stream bytes, then TERMINATE (sevt "term") or another control symbol
\* (sevt "viol") at lane k, then IDLE
StimEnd(k, sym) ==
    /\ turn = "drv"
    /\ sphase = "frame"
    /\ k < nbytes
    /\ scur + k <= Len(sstream)
    /\ signal' = StimValue(Closed(StimDataLanes(k), sym))
    /\ scur' = scur + k
    /\ sphase' = "over"
    /\ sevt' = IF sym = XGMII_TERMINATE THEN "term" ELSE "viol"
    /\ turn' = "mon"
    /\ UNCHANGED <<sstream, sstart, drvVars, cfgVars, auxVars, monVars>>

RxInit ==
    /\ InitCommon
    /\ NoCaller
    /\ budget = 0
    /\ sphase = "idle"
    /\ sstream \in StimStreams
    /\ scur = 0
    /\ sstart = 0
    /\ sevt = "none"

RxNext ==
    \/ StimIdle
    \/ \E lane \in StartLanes, first \in {XGMII_IDLE, XGMII_TERMINATE} :
          StimStart(lane, first)
    \/ \E lane \in StartLanes, nd \in 0..2, sym \in BadSymbols \cup {XGMII_TERMINATE} :
          StimShort(lane, nd, sym)
    \/ StimData
    \/ \E k \in 0..7, sym \in BadSymbols \cup {XGMII_TERMINATE} : StimEnd(k, sym)
    \/ MonitorScan
    \/ MonitorAccumulate

RxSpec == RxInit /\ [][RxNext]_vars

\* ---------------------------------------------------------------- _XGMIIBus and _get_bytes used word by word

\* A caller builds one word on the bus object lane by lane, reads bus.value
\* into the signal and lets _get_bytes take the value apart again.  It also
\* tries indices past the last lane (while building a word of patterns).

\* lanes of a word in which every lane is one of three patterns
PatternLanes == {<<90, FALSE>>, <<165, TRUE>>, <<0, TRUE>>}

\* lanes around the one lane that runs through every byte value
Backgrounds == {<<0, FALSE>>, <<255, TRUE>>}

\* hot = -1: every lane is drawn from PatternLanes; otherwise lane hot takes
\* any byte with any control flag and the other lanes are bg
Plans ==
    {[hot |-> -1, bg |-> <<0, FALSE>>]}
        \cup {[hot |-> h, bg |-> b] : h \in 0..(nbytes - 1), b \in Backgrounds}

LaneChoices(index) ==
    IF plan.hot = -1 THEN PatternLanes
    ELSE IF index = plan.hot THEN (0..255) \X BOOLEAN
    ELSE {plan.bg}

\* self.bus[index] = (byte, ctrl), IndexError caught by the caller
CallerSetItem(index, byte, ctrl) ==
    /\ hpc = "build"
    /\ index = Len(wrote) \/ index >= nbytes
    /\ <<byte, ctrl>> \in LaneChoices(index)
    /\ bus_integer' = BusSetItem(bus_integer, index, byte, ctrl)
    /\ lastset' = [index |-> index, raised |-> IndexError(index)]
    /\ wrote' = IF IndexError(index) THEN wrote
              ELSE Append(wrote, <<index, byte, ctrl>>)
    /\ UNCHANGED <<signal, turn, dpc, pkt, done, raw, wire, sync, words, edges, nsent,
                   sent, cfgVars, monVars, stimVars, hpc, plan, decoded>>

\* self.signal.value = self.bus.value once every lane is written
CallerRead ==
    /\ hpc = "build"
    /\ Len(wrote) = nbytes
    /\ signal' = BusValue(bus_integer)
    /\ bus_integer' = {}
    /\ hpc' = "read"
    /\ UNCHANGED <<turn, dpc, pkt, done, raw, wire, sync, words, edges, nsent, wrote,
                   sent, cfgVars, monVars, stimVars, plan, lastset, decoded>>

\* ctrl, bytes = self._get_bytes() on the monitor's side of the signal
CallerDecode ==
    /\ hpc = "read"
    /\ decoded' = GetBytes(signal)
    /\ hpc' = "decoded"
    /\ UNCHANGED <<signal, turn, drvVars, cfgVars, monVars, stimVars, plan, lastset>>

CodecInit ==
    /\ InitCommon
    /\ budget = 0
    /\ sphase = "off"
    /\ sstream = <<>>
    /\ scur = 0
    /\ sstart = 0
    /\ sevt = "none"
    /\ wrote = <<>>
    /\ hpc = "build"
    /\ plan \in Plans
    /\ lastset = [index |-> 0, raised |-> FALSE]
    /\ decoded = <<>>

CodecNext ==
    \/ \E index \in {Len(wrote)}
                        \cup (IF plan.hot = -1 THEN {nbytes, nbytes + 1} ELSE {}) :
          \E lane \in LaneChoices(index) : CallerSetItem(index, lane[1], lane[2])
    \/ CallerRead
    \/ CallerDecode

CodecSpec == CodecInit /\ [][CodecNext]_vars

\* ---------------------------------------------------------------- several sends in a row

\* sends per run
MaxSends == 3

\* packets sent in a row: one that layer1 pads, ending on a word boundary at
\* either width, and one it does not pad, ending one lane into a word
SeqFrames == {MkRaw(1, 170), MkRaw(MinPayload + 1, 248)}

SeqInit ==
    /\ InitCommon
    /\ NoCaller
    /\ budget = MaxSends
    /\ sphase = "off"
    /\ sstream = <<>>
    /\ scur = 0
    /\ sstart = 0
    /\ sevt = "none"

SeqNext ==
    \/ \E r \in SeqFrames, sy \in BOOLEAN : Send(r, sy)
    \/ \E r \in SeqFrames, sy \in BOOLEAN : SendAgain(r, sy)
    \/ DriverRest
    \/ DriverSynced
    \/ DriverAfterStart
    \/ DriverAfterData
    \/ DriverAfterTerminate
    \/ DriverAfterIdle
    \/ MonitorScan
    \/ MonitorAccumulate

SeqSpec == SeqInit /\ [][SeqNext]_vars

\* ---------------------------------------------------------------- layer1 and the frame checks on a buffer

\* A caller frames a packet with layer1, may flip one bit of the padded
\* payload, and the frame, accumulated whole in self._pkt, goes through the
\* monitor's checks.

FramerRaws ==
    {MkRaw(len, fill) :
        len \in {1, MinPayload - 1, MinPayload, MinPayload + 8}, fill \in Fills}

\* XGMII.layer1(r)
CallerFrame(r) ==
    /\ hpc = "frame"
    /\ raw' = r
    /\ wire' = Layer1(r)
    /\ hpc' = "framed"
    /\ UNCHANGED <<signal, turn, bus_integer, dpc, pkt, done, sync, words, edges,
                   nsent, wrote, sent, cfgVars, monVars, stimVars, plan, lastset,
                   decoded>>

\* the frame reaches self._pkt as it is
CallerKeep ==
    /\ hpc = "framed"
    /\ mon_pkt' = wire
    /\ plan' = [pos |-> 0, bit |-> 0]
    /\ hpc' = "passed"
    /\ UNCHANGED <<signal, turn, drvVars, cfgVars, mpc, received, log, last, stimVars,
                   lastset, decoded>>

\* the frame reaches self._pkt with bit `bit` of byte `pos` (1-based) flipped
CallerFlip(pos, bit) ==
    /\ hpc = "framed"
    /\ pos \in 8..(Len(wire) - 4)
    /\ mon_pkt' = [wire EXCEPT ![pos] = XorByte(@, Pow2(bit))]
    /\ plan' = [pos |-> pos, bit |-> bit]
    /\ hpc' = "passed"
    /\ UNCHANGED <<signal, turn, drvVars, cfgVars, mpc, received, log, last, stimVars,
                   lastset, decoded>>

\* _monitor_recv lines 130-167 on that buffer
CallerDeframe ==
    /\ hpc = "passed"
    /\ LET d == Deframe(mon_pkt)
       IN  /\ log' = log \o d.reports
           /\ received' = IF d.deliver THEN Append(received, d.payload) ELSE received
    /\ last' = [why |-> "terminate", buf |-> mon_pkt]
    /\ mon_pkt' = <<>>
    /\ hpc' = "deframed"
    /\ UNCHANGED <<signal, turn, drvVars, cfgVars, mpc, stimVars, plan, lastset,
                   decoded>>

FramerInit ==
    /\ InitCommon
    /\ nbytes = 8
    /\ interleaved = TRUE
    /\ wrote = IdleWrites
    /\ budget = 0
    /\ sphase = "off"
    /\ sstream = <<>>
    /\ scur = 0
    /\ sstart = 0
    /\ sevt = "none"
    /\ hpc = "frame"
    /\ plan = [pos |-> 0, bit |-> 0]
    /\ lastset = [index |-> 0, raised |-> FALSE]
    /\ decoded = <<>>

FramerNext ==
    \/ \E r \in FramerRaws : CallerFrame(r)
    \/ CallerKeep
    \/ \E pos \in 8..(7 + MinPayload + 8), bit \in 0..7 : CallerFlip(pos, bit)
    \/ CallerDeframe

FramerSpec == FramerInit /\ [][FramerNext]_vars

Next ==
    \/ \E r \in RawFrames, sy \in BOOLEAN : Send(r, sy)
    \/ DriverRest
    \/ DriverSynced
    \/ DriverAfterStart
    \/ DriverAfterData
    \/ DriverAfterTerminate
    \/ DriverAfterIdle
    \/ MonitorScan
    \/ MonitorAccumulate

Spec == Init /\ [][Next]_vars

\* ================================================================ properties

\* lane i (0-based) of a driven value, read off the layout table: byte at bits
\* 9i..9i+7 and control at bit 9i+8 when interleaved, byte at bits 8i..8i+7 and
\* control at bit 8N+i otherwise
LaneOf(v, i) ==
    IF interleaved
    THEN <<ByteAt(v, 9 * i), (9 * i + 8) \in v>>
    ELSE <<ByteAt(v, 8 * i), (8 * nbytes + i) \in v>>

\* lane number q of the lane stream of the words driven by the send:
\* q = 0 is lane 0 of the first word
StreamLane(q) == LaneOf(words[(q \div nbytes) + 1], q % nbytes)

StreamLen == Len(words) * nbytes

\* the control=false lanes among stream lanes q.., in order
RECURSIVE DataFrom(_)
DataFrom(q) ==
    IF q >= StreamLen THEN <<>>
    ELSE IF StreamLane(q)[2] THEN DataFrom(q + 1)
    ELSE <<StreamLane(q)[1]>> \o DataFrom(q + 1)

\* the send has returned
Sent == nsent = 1 /\ dpc = "idle"

\* wire bytes left after the start word
RestLen == Len(wire) - (nbytes - 1)

CeilDiv(a, b) == (a + b - 1) \div b

\* raw right-padded with zero bytes to 60 bytes
PaddedRaw == raw \o [i \in 1..(IF Len(raw) < 60 THEN 60 - Len(raw) ELSE 0) |-> 0]

\* C1 (as claimed): once a send has returned, the monitor has delivered exactly
\* one payload and it is the raw frame itself.
C1_RoundTripRaw == Sent => received = <<raw>>

\* C1 (amended): once a send has returned, the monitor has delivered exactly one
\* payload, namely the raw frame right-padded with zero bytes to 60 bytes (the
\* raw frame itself when it has 60 bytes or more), and has logged no error.
C1_RoundTripPadded == Sent => (received = <<PaddedRaw>> /\ log = <<>>)

C1_Witness ==
    /\ Sent
    /\ Len(raw) = 1
    /\ Len(received) = 1
    /\ Len(received[1]) = 60
    /\ received[1][1] = raw[1]

\* C2: the lane stream of a send is START (control) in lane 0 of the first
\* word, then the bytes of wire in order as data lanes, without gap, repeat or
\* swap; once the send has returned the data lanes spell wire exactly.
C2_SerializationOrder ==
    (words # <<>> /\ turn = "mon") =>
        /\ StreamLane(0) = <<XGMII_START, TRUE>>
        /\ \A q \in 1..(nbytes - 1) : StreamLane(q) = <<wire[q], FALSE>>
        /\ \A q \in 1..(StreamLen - 1) :
              q <= Len(wire) => StreamLane(q) = <<wire[q], FALSE>>
        /\ Sent => DataFrom(0) = wire

C2_Witness ==
    /\ Sent
    /\ nbytes = 8
    /\ Len(wire) = 78
    /\ DataFrom(0) = wire
    /\ StreamLane(78) = <<wire[78], FALSE>>

\* stream positions that carry (TERMINATE, control)
TermLanes == {q \in 0..(StreamLen - 1) : StreamLane(q) = <<XGMII_TERMINATE, TRUE>>}

\* word j (1-based) of the send has only data lanes
AllData(j) == \A i \in 0..(nbytes - 1) : ~LaneOf(words[j], i)[2]

\* word j carries k data lanes, TERMINATE at lane k and IDLE after it
TerminatedAt(j, k) ==
    \A i \in 0..(nbytes - 1) :
        LaneOf(words[j], i) =
            IF i < k THEN <<wire[(nbytes - 1) + (j - 2) * nbytes + i + 1], FALSE>>
            ELSE IF i = k THEN <<XGMII_TERMINATE, TRUE>>
            ELSE <<XGMII_IDLE, TRUE>>

\* C3: with R the wire bytes left after the start word: if N divides R the data
\* words carry no TERMINATE and one extra word TERMINATE, IDLE, ..., IDLE
\* follows them; otherwise the last data word carries R mod N data bytes, then
\* TERMINATE, then IDLE, and no extra word is sent.  One TERMINATE per send, at
\* lane 0 only in the extra word.
C3_BoundaryTermination ==
    /\ (words # <<>> /\ turn = "mon") => Cardinality(TermLanes) <= 1
    /\ Sent =>
         LET k  == RestLen % nbytes
             nd == CeilDiv(RestLen, nbytes)
         IN  /\ Cardinality(TermLanes) = 1
             /\ IF k = 0
                THEN /\ Len(words) = 1 + nd + 2
                     /\ \A j \in 2..(1 + nd) : AllData(j)
                     /\ TerminatedAt(2 + nd, 0)
                ELSE /\ Len(words) = 1 + nd + 1
                     /\ \A j \in 2..nd : AllData(j)
                     /\ TerminatedAt(1 + nd, k)
             /\ \A q \in TermLanes : (q % nbytes = 0) <=> (k = 0)

C3_Witness ==
    /\ Sent
    /\ nbytes = 8
    /\ RestLen % nbytes = 7
    /\ LaneOf(words[Len(words) - 1], 7) = <<XGMII_TERMINATE, TRUE>>
    /\ ~LaneOf(words[Len(words) - 1], 6)[2]

\* edges of a send as the claim counts them
ClaimedEdges ==
    CeilDiv(RestLen, nbytes) + 2 + (IF RestLen % nbytes = 0 THEN 1 ELSE 0)

\* C4 (as claimed): a send awaits ceil(R / N) + 2 clock edges, one more when N
\* divides R.
C4_EdgesAsClaimed == Sent => edges = ClaimedEdges

\* C4 (amended): a send awaits one clock edge per word it drives, in total
\* ceil(R / N) + 2, one more when N divides R, and one more, before the start
\* word, when sync is true; width 4 and the raw frame AA give a 71-byte wire
\* frame and 20 edges without sync.  A send never awaits more edges than that.
C4_EdgeCount ==
    LET s == IF sync THEN 1 ELSE 0
    IN  /\ Sent => (edges = ClaimedEdges + s /\ Len(words) = edges - s)
        /\ dpc \in {"start", "data", "term", "settle"} =>
              (Len(words) = edges - s + 1 /\ edges < ClaimedEdges + s)
        /\ dpc = "sync" => (edges = 0 /\ words = <<>>)
        /\ (Sent /\ nbytes = 4 /\ raw = <<170>> /\ ~sync) =>
              (Len(wire) = 71 /\ edges = 20)

C4_Witness == Sent /\ nbytes = 4 /\ raw = <<170>> /\ sync /\ edges = 21

\* CRC-32 of any message followed by its own little-endian CRC-32
CrcResidue == <<28, 223, 68, 33>>

Sampled == turn = "drv"

\* the stimulus put its START where the monitor looks for one
Synced == sstart = 0 \/ (nbytes = 8 /\ sstart = 4)

\* the bytes the stimulus has put on the bus after START
SentBytes == SubSeq(sstream, 1, scur)

\* C7: on an 8-byte bus a START in lane 4 starts accumulation with lanes 5, 6, 7
\* as the first three bytes; a START in lane 0 does so with lanes 1..N-1; a
\* START in any other lane, and on a 4-byte bus any lane but lane 0, is never
\* noticed.  A frame ended by TERMINATE is accumulated and delivered alike
\* whether it started in lane 0 or lane 4.
C7_LaneAlignment ==
    /\ (Sampled /\ sevt = "start" /\ nbytes = 8 /\ sstart = 4) =>
          (mpc = "ACCUMULATING" /\ mon_pkt = SubSeq(sstream, 1, 3))
    /\ (Sampled /\ sevt = "start" /\ sstart = 0) =>
          (mpc = "ACCUMULATING" /\ mon_pkt = SubSeq(sstream, 1, nbytes - 1))
    /\ (sevt \in {"start", "data", "term"} /\ ~Synced) =>
          (mpc = "SCANNING" /\ mon_pkt = <<>> /\ received = <<>> /\ log = <<>>)
    /\ (Sampled /\ sevt = "term" /\ Synced) =>
          /\ last = [why |-> "terminate", buf |-> SentBytes]
          /\ received =
                IF scur >= 12 /\ SubSeq(sstream, 1, 7) = PREAMBLE_SFD
                THEN <<SubSeq(sstream, 8, scur - 4)>>
                ELSE <<>>

C7_Witness ==
    /\ Sampled
    /\ sevt = "term"
    /\ nbytes = 8
    /\ sstart = 4
    /\ scur = Len(sstream)
    /\ received = <<SubSeq(sstream, 8, Len(sstream) - 4)>>
    /\ log = <<>>

\* C8: a frame of at least 12 bytes ended by TERMINATE whose first 7 bytes
\* differ from the preamble/SFD in any byte is reported as BadPreamble (after
\* RuntFrame when shorter than 71 bytes), nothing is delivered, the buffer is
\* cleared and the monitor is scanning again.
C8_PreambleSensitivity ==
    (/\ Sampled
     /\ sevt = "term"
     /\ Synced
     /\ scur >= 12
     /\ \E i \in 1..7 : sstream[i] # PREAMBLE_SFD[i]) =>
        /\ log = (IF scur < 71 THEN <<"RuntFrame">> ELSE <<>>) \o <<"BadPreamble">>
        /\ received = <<>>
        /\ mon_pkt = <<>>
        /\ mpc = "SCANNING"

C8_Witness ==
    /\ Sampled
    /\ sevt = "term"
    /\ Synced
    /\ scur = Len(sstream)
    /\ sstream[1] # PREAMBLE_SFD[1]
    /\ log = <<"BadPreamble">>
    /\ received = <<>>

\* C9: while a frame is accumulated, a control symbol other than TERMINATE
\* (IDLE, START) aborts it: one ProtocolViolation is logged, every byte
\* accumulated so far, data lanes of the same word included, is dropped,
\* nothing is delivered and the monitor is scanning at the next edge.
C9_ProtocolViolation ==
    (Sampled /\ sevt = "viol" /\ Synced) =>
        /\ log = <<"ProtocolViolation">>
        /\ received = <<>>
        /\ mon_pkt = <<>>
        /\ mpc = "SCANNING"
        /\ last = [why |-> "violation", buf |-> <<>>]

C9_Witness ==
    /\ Sampled
    /\ sevt = "viol"
    /\ nbytes = 4
    /\ sstart = 0
    /\ scur >= 12
    /\ (scur - 3) % 4 = 2
    /\ log = <<"ProtocolViolation">>
    /\ mon_pkt = <<>>

\* the monitor's last log entry is e
LastLogged(e) == log # <<>> /\ log[Len(log)] = e

\* C10 (as claimed): every frame ended by TERMINATE is delivered or reported,
\* and one of fewer than 12 bytes, the empty one included, is reported as
\* Truncated and not delivered.
C10_AsClaimed ==
    (Sampled /\ sevt = "term" /\ Synced) =>
        /\ received # <<>> \/ log # <<>>
        /\ scur < 12 => (LastLogged("Truncated") /\ received = <<>>)

\* C10 (amended): every frame ended by TERMINATE with at least one byte
\* accumulated is delivered or reported: 1..11 bytes are reported as RuntFrame
\* and Truncated and not delivered, 12 bytes or more are either delivered or
\* reported as BadPreamble.  An empty buffer (TERMINATE right after START) is
\* dropped silently: nothing is reported and nothing delivered.  In every case
\* the buffer is cleared and the monitor is scanning again.
C10_TerminatedFrames ==
    (Sampled /\ sevt = "term" /\ Synced) =>
        /\ mpc = "SCANNING"
        /\ mon_pkt = <<>>
        /\ scur = 0 => (log = <<>> /\ received = <<>>)
        /\ (1 <= scur /\ scur < 12) =>
              (log = <<"RuntFrame", "Truncated">> /\ received = <<>>)
        /\ scur >= 12 => ((Len(received) = 1) # LastLogged("BadPreamble"))
        /\ Len(received) <= 1

C10_Witness ==
    /\ Sampled
    /\ sevt = "term"
    /\ Synced
    /\ scur = 0
    /\ last = [why |-> "terminate", buf |-> <<>>]
    /\ log = <<>>
    /\ received = <<>>

\* the stimulus' frame so far has the preamble/SFD as its first seven bytes
GoodPreamble == scur >= 7 /\ SubSeq(sstream, 1, 7) = <<85, 85, 85, 85, 85, 85, 213>>

\* the last four bytes the stimulus sent are not the little-endian CRC-32 of
\* the bytes between the preamble and those four
CrcWrong == SubSeq(sstream, scur - 3, scur) # Crc32(SubSeq(sstream, 8, scur - 4))

\* C11: a frame of at least 12 bytes ended by TERMINATE, with the right
\* preamble and last four bytes that are not the CRC-32 of the bytes between,
\* is reported as ChecksumMismatch (after RuntFrame when shorter than 71
\* bytes) and its payload, the frame without its first 7 and last 4 bytes, is
\* delivered all the same; with matching last four bytes no mismatch is
\* reported.
C11_ChecksumNotFatal ==
    (Sampled /\ sevt = "term" /\ Synced /\ scur >= 12 /\ GoodPreamble) =>
        /\ received = <<SubSeq(sstream, 8, scur - 4)>>
        /\ mon_pkt = <<>>
        /\ mpc = "SCANNING"
        /\ log = (IF scur < 71 THEN <<"RuntFrame">> ELSE <<>>)
                    \o (IF CrcWrong THEN <<"ChecksumMismatch">> ELSE <<>>)

C11_Witness ==
    /\ Sampled
    /\ sevt = "term"
    /\ Synced
    /\ scur = Len(sstream)
    /\ scur = 72
    /\ GoodPreamble
    /\ CrcWrong
    /\ log = <<"ChecksumMismatch">>
    /\ received = <<SubSeq(sstream, 8, 68)>>

\* the stimulus sent a frame as layer1 makes it, from first byte to last
Intact == scur = Len(sstream) /\ sstream \in {Layer1(r) : r \in StimRaws}

\* C12: a frame of 12 to 70 bytes ended by TERMINATE is reported as RuntFrame
\* first and still goes through the preamble and checksum checks: with the
\* right preamble its payload is delivered, with a wrong one BadPreamble
\* follows.  A frame of 71 bytes or more is never reported as a runt, and a
\* frame made by layer1, received from first byte to last, is reported neither
\* as RuntFrame nor as Truncated.
C12_RuntContinues ==
    (Sampled /\ sevt = "term" /\ Synced) =>
        /\ (12 <= scur /\ scur < 71) =>
              /\ log # <<>> /\ log[1] = "RuntFrame"
              /\ GoodPreamble =>
                    /\ received = <<SubSeq(sstream, 8, scur - 4)>>
                    /\ log = <<"RuntFrame">>
                              \o (IF CrcWrong THEN <<"ChecksumMismatch">> ELSE <<>>)
              /\ ~GoodPreamble =>
                    (received = <<>> /\ log = <<"RuntFrame", "BadPreamble">>)
        /\ scur >= 71 => \A i \in 1..Len(log) : log[i] # "RuntFrame"
        /\ Intact =>
              /\ scur >= 71
              /\ \A i \in 1..Len(log) : log[i] \notin {"RuntFrame", "Truncated"}
              /\ Len(received) = 1

C12_Witness ==
    /\ Sampled
    /\ sevt = "term"
    /\ Synced
    /\ scur = 70
    /\ GoodPreamble
    /\ log[1] = "RuntFrame"
    /\ Len(received) = 1
    /\ Len(received[1]) = 59

\* ---------------------------------------------------------------- bus word properties (CodecSpec)

\* lane i (0-based) as the caller wrote it
WrittenLane(i) == <<wrote[i + 1][2], wrote[i + 1][3]>>

\* C13: for widths 4 and 8 and both layouts, _get_bytes of the value read
\* from a word whose lanes were all set returns the bytes and control flags
\* that were set, lane by lane; the integer fits in 9N bits, with the byte of
\* lane i at bits 9i..9i+7 and its control flag at bit 9i+8 when interleaved,
\* and the byte at bits 8i..8i+7 and the flag at bit 8N+i in block layout.
C13_CodecRoundTrip ==
    /\ hpc = "build" => bus_integer \subseteq 0..(9 * nbytes - 1)
    /\ hpc \in {"read", "decoded"} =>
          /\ signal \subseteq 0..(9 * nbytes - 1)
          /\ \A i \in 0..(nbytes - 1) : LaneOf(signal, i) = WrittenLane(i)
    /\ hpc = "decoded" =>
          /\ Len(decoded.bytes) = nbytes
          /\ Len(decoded.ctrls) = nbytes
          /\ \A i \in 0..(nbytes - 1) :
                <<decoded.bytes[i + 1], decoded.ctrls[i + 1]>> = WrittenLane(i)

C13_Witness ==
    /\ hpc = "decoded"
    /\ nbytes = 8
    /\ ~interleaved
    /\ plan.hot = 7
    /\ WrittenLane(7) = <<254, TRUE>>
    /\ decoded.bytes[8] = 254
    /\ decoded.ctrls[8]
    /\ 71 \in signal

\* the integer that holds exactly the lanes written so far
Packed == StimValue([i \in 1..Len(wrote) |-> <<wrote[i][2], wrote[i][3]>>])

\* C15: __setitem__ with an index >= N raises IndexError and leaves the word
\* as it was; with 0 <= index < N it does not raise (and adds the lane).
C15_OutOfRange ==
    hpc = "build" =>
        /\ lastset.raised <=> lastset.index >= nbytes
        /\ bus_integer = Packed
        /\ ~lastset.raised /\ wrote # <<>> =>
              wrote[Len(wrote)][1] = lastset.index

C15_Witness ==
    /\ hpc = "build"
    /\ lastset = [index |-> nbytes, raised |-> TRUE]
    /\ Len(wrote) = 3
    /\ bus_integer = Packed
    /\ bus_integer # {}

\* ---------------------------------------------------------------- sends in a row (SeqSpec)

\* every lane of the value is (IDLE, control)
IdleWord(v) == \A i \in 0..(nbytes - 1) : LaneOf(v, i) = <<7, TRUE>>

\* the value carries (TERMINATE, control) in some lane
HasTerminate(v) == \E i \in 0..(nbytes - 1) : LaneOf(v, i) = <<253, TRUE>>

\* C14: while no send is in flight, after construction and after each
\* completed send, the signal carries IDLE with control in every lane.  A send
\* returns only from its last await, which it reaches after driving an
\* all-IDLE word right after the word with TERMINATE; it has then awaited one
\* clock edge per word it drove, that last word included.
C14_IdleResting ==
    /\ dpc = "idle" => IdleWord(signal)
    /\ dpc = "settle" =>
          /\ Len(words) >= 3
          /\ signal = words[Len(words)]
          /\ IdleWord(signal)
          /\ HasTerminate(words[Len(words) - 1])
          /\ edges = Len(words) - 1 + (IF sync THEN 1 ELSE 0)
    /\ (dpc = "idle" /\ nsent >= 1) =>
          /\ IdleWord(words[Len(words)])
          /\ HasTerminate(words[Len(words) - 1])
          /\ edges = Len(words) + (IF sync THEN 1 ELSE 0)
    /\ dpc \in {"start", "data", "term"} => ~IdleWord(signal)

C14_Witness ==
    /\ dpc = "idle"
    /\ nsent = 2
    /\ turn = "drv"
    /\ IdleWord(signal)
    /\ words[Len(words)] = signal
    /\ LaneOf(words[Len(words) - 1], 0) = <<253, TRUE>>

\* x right-padded with zero bytes to 60 bytes
Padded(x) == x \o [i \in 1..(IF Len(x) < 60 THEN 60 - Len(x) ELSE 0) |-> 0]

\* C20: with k sends issued one after another, each after the one before it
\* returned, with or without sync, the monitor delivers one payload per send,
\* in the order sent, the i-th being the zero-padded packet of the i-th send,
\* and logs nothing; the payload of a send is delivered before that send
\* returns and not before its start word is on the bus, and the monitor is
\* scanning with an empty buffer when it samples the next start word.
C20_InOrderDelivery ==
    /\ Len(sent) = nsent + (IF dpc = "idle" THEN 0 ELSE 1)
    /\ Len(received) \in {Len(sent) - 1, Len(sent)}
    /\ \A i \in 1..Len(received) : received[i] = Padded(sent[i])
    /\ log = <<>>
    /\ dpc \in {"idle", "settle"} => Len(received) = Len(sent)
    /\ dpc \in {"sync", "start"} => Len(received) = Len(sent) - 1
    /\ (dpc \in {"idle", "sync"} \/ (dpc = "start" /\ turn = "mon")) =>
          (mpc = "SCANNING" /\ mon_pkt = <<>>)

C20_Witness ==
    /\ nsent = 3
    /\ dpc = "idle"
    /\ Len(received) = 3
    /\ received[1] = Padded(sent[1])
    /\ received[2] = sent[2]
    /\ received[3] = Padded(sent[3])
    /\ Len(sent[1]) = 1
    /\ Len(sent[2]) = 61
    /\ Len(sent[3]) = 1

\* ---------------------------------------------------------------- checksum properties (FramerSpec)

\* C16: a frame made by layer1 in which one bit of the padded payload is
\* flipped, preamble and checksum bytes left alone, is reported as
\* ChecksumMismatch by the frame checks (and, being no runt and having the
\* right preamble, as nothing else); the same frame unflipped is not.
C16_ChecksumSensitivity ==
    hpc = "deframed" =>
        /\ plan.pos # 0 =>
              /\ log = <<"ChecksumMismatch">>
              /\ last.buf # wire
              /\ Len(received) = 1 /\ received[1] # SubSeq(wire, 8, Len(wire) - 4)
        /\ plan.pos = 0 =>
              (log = <<>> /\ received = <<SubSeq(wire, 8, Len(wire) - 4)>>)

C16_Witness ==
    /\ hpc = "deframed"
    /\ Len(raw) = 1
    /\ plan = [pos |-> 67, bit |-> 7]
    /\ last.buf[67] = 128
    /\ wire[67] = 0
    /\ log = <<"ChecksumMismatch">>

\* ---------------------------------------------------------------- driver properties (Spec)

\* lane q (0-based) of the lane stream a send of the wire frame w is to put
\* on the bus: START, the bytes of w, TERMINATE, then IDLE
FrameLane(w, q) ==
    IF q = 0 THEN <<251, TRUE>>
    ELSE IF q <= Len(w) THEN <<w[q], FALSE>>
    ELSE IF q = Len(w) + 1 THEN <<253, TRUE>>
    ELSE <<7, TRUE>>

\* the j-th word (1-based) of that stream as a bus value
FrameWord(w, j) == StimValue([i \in 1..nbytes |-> FrameLane(w, (j - 1) * nbytes + i - 1)])

\* words of that stream up to the one with TERMINATE, plus the all-IDLE word
FrameWords(w) == CeilDiv(Len(w) + 2, nbytes) + 1

\* C17: the words a send puts on the bus are determined by the packet, the
\* width and the layout alone, so they are the same with sync on and off; with
\* sync the send awaits exactly one clock edge more, before it drives the
\* start word, and leaves the (idle) bus value alone during that wait.
C17_SyncOnlyDelays ==
    LET s == IF sync THEN 1 ELSE 0
    IN  /\ dpc = "sync" => (sync /\ edges = 0 /\ words = <<>> /\ IdleWord(signal))
        /\ dpc \in {"start", "data", "term", "settle"} =>
              /\ Len(words) <= FrameWords(wire)
              /\ \A j \in 1..Len(words) : words[j] = FrameWord(wire, j)
              /\ signal = words[Len(words)]
              /\ edges = Len(words) - 1 + s
        /\ Sent =>
              /\ Len(words) = FrameWords(wire)
              /\ \A j \in 1..Len(words) : words[j] = FrameWord(wire, j)
              /\ edges = Len(words) + s

C17_Witness ==
    /\ Sent
    /\ sync
    /\ nbytes = 4
    /\ Len(raw) = 62
    /\ Len(words) = FrameWords(wire)
    /\ words[1] = FrameWord(wire, 1)
    /\ edges = Len(words) + 1

\* C18: at every await of the driver the bus object holds no bits (reading
\* bus.value cleared it), and the word read last was built by writing each of
\* the lanes 0..N-1 exactly once, in idle(), the start word, each data word,
\* the terminating word and the extra terminate word alike; so the value on
\* the bus is made of exactly the lanes written for it and of no other bit.
C18_NoStaleLanes ==
    /\ bus_integer = {}
    /\ Len(wrote) = nbytes
    /\ \A i \in 0..(nbytes - 1) : Cardinality({k \in 1..Len(wrote) : wrote[k][1] = i}) = 1
    /\ signal \subseteq 0..(9 * nbytes - 1)
    /\ \A k \in 1..Len(wrote) : LaneOf(signal, wrote[k][1]) = <<wrote[k][2], wrote[k][3]>>

C18_Witness ==
    /\ dpc = "term"
    /\ nbytes = 8
    /\ bus_integer = {}
    /\ wrote[1] = <<0, 253, TRUE>>
    /\ wrote[8] = <<7, 7, TRUE>>
    /\ LaneOf(signal, 0) = <<253, TRUE>>
    /\ LaneOf(words[Len(words) - 1], 7)[2] = FALSE

\* ---------------------------------------------------------------- monitor buffer (RxSpec)

\* the value on the signal has START with control in a lane the monitor looks at
StartSeen ==
    \/ LaneOf(signal, 0) = <<251, TRUE>>
    \/ nbytes = 8 /\ LaneOf(signal, 4) = <<251, TRUE>>

====
